---------------------------- MODULE Spec2Model ----------------------------
(***************************************************************************)
(* RustDoku6: a 6x6 Sudoku (2x3 regions) played in a terminal.             *)
(*                                                                         *)
(* model.rs : Cell, Grid (fill_randomly, is_valid_move, is_full,           *)
(*            is_solved) and Game (new, move_cursor, handle_input,         *)
(*            toggle_mode, clear_cell).                                    *)
(* main.rs  : run_app, the loop that dispatches key presses to Game.       *)
(***************************************************************************)
EXTENDS Integers, Sequences, FiniteSets, TLC

(***************************************************************************)
(* Program constants.                                                      *)
(***************************************************************************)
\* Grid side: cells: [[Cell; 6]; 6].
N == 6
\* Option<u8>::None, the value of an empty cell.
None == 0
\* let target_removed = 20.
target_removed == 20

(***************************************************************************)
(* Bounds of the model.                                                    *)
(***************************************************************************)
\* Seeds of the random generator: 1..MaxSeed.
MaxSeed == 3
\* Inputs off the player's plan in one session.
MaxDetours == 2
\* Seeds of the runs of Game::new alone: 1..MaxNewSeed.
MaxNewSeed == 30
\* Cells of a hand-built grid that differ from its base grid.
MaxEdits == 2
\* Rows of a hand-built grid whose cells are set.
EditRows == 2

\* Direct calls made on a new Game.
MaxCalls == 4
\* Filled cells the carving loop chooses among, when its picks are left open.
MaxChoice == 2
\* Holes of a grid filled in part: every gap-th cell, gap in MinGap..MaxGap.
MinGap == 2
MaxGap == 4

Idx == 0..(N - 1)
Digits == 1..N

(***************************************************************************)
(* rand::rng(): a pseudo-random generator, a deterministic function of    *)
(* its seed.  The generator's state is a number in 1..65536; every draw    *)
(* advances it (a Lehmer generator) and random_range(0..n) reduces it.     *)
(***************************************************************************)
RngNext(s) == (s * 75) % 65537

random_range(s, n) == [value |-> (RngNext(s) \div 7) % n, rng |-> RngNext(s)]

Swap(seq, i, j) == [seq EXCEPT ![i] = seq[j], ![j] = seq[i]]

\* numbers.shuffle(&mut rng): Fisher-Yates, for i in (1..len).rev()
\* swap(i, random_range(0..=i)).  Sequences are 1-based here.
RECURSIVE ShuffleFrom(_, _, _)
ShuffleFrom(numbers, i, s) ==
    IF i < 1 THEN [numbers |-> numbers, rng |-> s]
    ELSE LET d == random_range(s, i + 1)
         IN  ShuffleFrom(Swap(numbers, i + 1, d.value + 1), i - 1, d.rng)

shuffle(numbers, s) == ShuffleFrom(numbers, Len(numbers) - 1, s)

(***************************************************************************)
(* Cell and Grid.                                                          *)
(***************************************************************************)
\* Cell::default(): no value, not fixed, no marks.
DefaultCell == [value |-> None, is_fixed |-> FALSE, marks |-> [d \in Digits |-> FALSE]]

\* Grid::new().
GridNew == [r \in Idx |-> [c \in Idx |-> DefaultCell]]

\* The 2x3 box of (row, col): rows start_row..start_row+1, columns
\* start_col..start_col+2.
start_row(row) == (row \div 2) * 2
start_col(col) == (col \div 3) * 3

\* is_valid_move without its box check.
is_valid_move_no_box(cells_, row, col, value) ==
    /\ \A c \in Idx : c # col => cells_[row][c].value # value
    /\ \A r \in Idx : r # row => cells_[r][col].value # value

\* is_valid_move whose row check does not skip the cell itself.
is_valid_move_counts_self(cells_, row, col, value) ==
    /\ \A c \in Idx : cells_[row][c].value # value
    /\ \A r \in Idx : r # row => cells_[r][col].value # value
    /\ \A r \in start_row(row)..(start_row(row) + 1) :
         \A c \in start_col(col)..(start_col(col) + 2) :
            (r # row \/ c # col) => cells_[r][c].value # value

\* Grid::is_valid_move: no other cell of the row, the column or the box holds value.
is_valid_move(cells_, row, col, value) ==
    /\ \A c \in Idx : c # col => cells_[row][c].value # value
    /\ \A r \in Idx : r # row => cells_[r][col].value # value
    /\ \A r \in start_row(row)..(start_row(row) + 1) :
         \A c \in start_col(col)..(start_col(col) + 2) :
            (r # row \/ c # col) => cells_[r][c].value # value

\* Grid::is_full.
is_full(cells_) == \A row \in Idx : \A col \in Idx : cells_[row][col].value # None

\* is_solved that skips the empty cells instead of requiring a full grid.
is_solved_skips_empty(cells_) ==
    \A r \in Idx : \A c \in Idx :
        cells_[r][c].value # None => is_valid_move(cells_, r, c, cells_[r][c].value)

\* Grid::is_solved: full, and every cell's value is a valid move at its place.
is_solved(cells_) ==
    /\ is_full(cells_)
    /\ \A r \in Idx : \A c \in Idx : is_valid_move(cells_, r, c, cells_[r][c].value)

\* Row-major positions 0..35 of the scan "for r in 0..6 { for c in 0..6".
PosRow(p) == p \div N
PosCol(p) == p % N
EmptyPositions(cells_) == {p \in 0..(N * N - 1) : cells_[PosRow(p)][PosCol(p)].value = None}
Min(S) == CHOOSE m \in S : \A y \in S : m <= y

(***************************************************************************)
(* State.                                                                  *)
(*   pc            where the program is: inside Game::new ("call", "loop", *)
(*                 "return": fill_randomly; "capture", "carve"), in        *)
(*                 run_app's loop ("run"), ended ("quit", "panic"), or a   *)
(*                 bare Grid under edit ("grid")                           *)
(*   cells         grid.cells                                              *)
(*   stack         the frames of the fill_randomly calls in progress       *)
(*   ret           the bool the last completed fill_randomly call returned *)
(*   attempt       which generation attempt Game::new is making            *)
(*   rng           the random generator's state                            *)
(*   solution, cursor, state, mode, mistakes   the fields of Game          *)
(*   removed_count the carving loop's counter                              *)
(*   event         the last input handled: a key code or an API call       *)
(*   target, order, detours   the player (see the section on the player)   *)
(*   only_correct  history: so far the player has only moved the cursor    *)
(*                 and entered solution digits into empty cells            *)
(***************************************************************************)
VARIABLES pc, cells, stack, ret, attempt, rng, solution, removed_count,
          cursor, state, mode, mistakes, event, target, order, detours, only_correct

vars == <<pc, cells, stack, ret, attempt, rng, solution, removed_count,
          cursor, state, mode, mistakes, event, target, order, detours, only_correct>>


\* let mut solution = [[0; 6]; 6].
ZeroSolution == [r \in Idx |-> [c \in Idx |-> 0]]

\* mistakes: u32, held as two 16-bit limbs <<high, low>> (its value is
\* high * 65536 + low).  u32::saturating_add(1): the maximum stays.
U32Zero == <<0, 0>>
U32Max == <<65535, 65535>>
\* u32::wrapping_add(1).
wrapping_add_1(m) ==
    IF m = <<65535, 65535>> THEN <<0, 0>>
    ELSE IF m[2] < 65535 THEN <<m[1], m[2] + 1>>
    ELSE <<m[1] + 1, 0>>
saturating_add_1(m) ==
    IF m = U32Max THEN U32Max
    ELSE IF m[2] < 65535 THEN <<m[1], m[2] + 1>>
    ELSE <<m[1] + 1, 0>>

(***************************************************************************)
(* Grid::fill_randomly, one step at a time.  A frame holds the cell (r, c) *)
(* the call is filling, its shuffled numbers and the index i of the digit  *)
(* its for loop is at; entry, the grid the call found, is kept for the     *)
(* properties only.                                                        *)
(***************************************************************************)
\* Entry of a call: scan for the first empty cell.  None: return true
\* (line 59).  Otherwise shuffle and start the loop over the numbers.
FillCall ==
    /\ pc = "call"
    /\ IF EmptyPositions(cells) = {}
       THEN /\ ret' = TRUE
            /\ pc' = "return"
            /\ UNCHANGED <<stack, rng>>
       ELSE LET p  == Min(EmptyPositions(cells))
                sh == shuffle(<<1, 2, 3, 4, 5, 6>>, rng)
            IN  /\ stack' = Append(stack, [r |-> PosRow(p), c |-> PosCol(p),
                                           numbers |-> sh.numbers, i |-> 1,
                                           entry |-> cells])
                /\ rng' = sh.rng
                /\ pc' = "loop"
                /\ UNCHANGED ret
    /\ UNCHANGED <<cells, attempt, solution, removed_count, cursor, state, mode,
                   mistakes, event, target, order, detours, only_correct>>

Top == stack[Len(stack)]
Pop == SubSeq(stack, 1, Len(stack) - 1)
NextDigit == [stack EXCEPT ![Len(stack)].i = @ + 1]

\* for &n in &numbers: a valid n is placed and the call recurses (lines 47-49);
\* an invalid n is skipped.
FillTry ==
    /\ pc = "loop"
    /\ Top.i <= Len(Top.numbers)
    /\ IF is_valid_move(cells, Top.r, Top.c, Top.numbers[Top.i])
       THEN /\ cells' = [cells EXCEPT ![Top.r][Top.c].value = Top.numbers[Top.i]]
            /\ pc' = "call"
            /\ UNCHANGED stack
       ELSE /\ stack' = NextDigit
            /\ UNCHANGED <<cells, pc>>
    /\ UNCHANGED <<ret, attempt, rng, solution, removed_count, cursor, state, mode,
                   mistakes, event, target, order, detours, only_correct>>

\* The loop ran out of numbers: return false (line 55).
FillExhausted ==
    /\ pc = "loop"
    /\ Top.i > Len(Top.numbers)
    /\ stack' = Pop
    /\ ret' = FALSE
    /\ pc' = "return"
    /\ UNCHANGED <<cells, attempt, rng, solution, removed_count, cursor, state, mode,
                   mistakes, event, target, order, detours, only_correct>>

\* The return to the caller that does not undo the placement.
FillReturn_no_undo ==
    /\ pc = "return"
    /\ stack # <<>>
    /\ IF ret
       THEN /\ stack' = Pop
            /\ UNCHANGED <<cells, pc>>
       ELSE /\ stack' = NextDigit
            /\ pc' = "loop"
            /\ UNCHANGED cells
    /\ UNCHANGED <<ret, attempt, rng, solution, removed_count, cursor, state, mode,
                   mistakes, event, target, order, detours, only_correct>>

\* The return to the caller that gives up at the first call that fails.
FillReturn_gives_up ==
    /\ pc = "return"
    /\ stack # <<>>
    /\ IF ret
       THEN /\ stack' = Pop
            /\ UNCHANGED <<cells, pc>>
       ELSE /\ cells' = [cells EXCEPT ![Top.r][Top.c].value = None]
            /\ stack' = Pop
            /\ UNCHANGED pc
    /\ UNCHANGED <<ret, attempt, rng, solution, removed_count, cursor, state, mode,
                   mistakes, event, target, order, detours, only_correct>>

\* A recursive call returned to its caller (lines 49-52): true is passed up,
\* false undoes the placement and moves on to the next number.
FillReturn ==
    /\ pc = "return"
    /\ stack # <<>>
    /\ IF ret
       THEN /\ stack' = Pop
            /\ UNCHANGED <<cells, pc>>
       ELSE /\ cells' = [cells EXCEPT ![Top.r][Top.c].value = None]
            /\ stack' = NextDigit
            /\ pc' = "loop"
    /\ UNCHANGED <<ret, attempt, rng, solution, removed_count, cursor, state, mode,
                   mistakes, event, target, order, detours, only_correct>>

(***************************************************************************)
(* Game::new.                                                              *)
(***************************************************************************)
\* The retry that keeps the grid the failed call left.
NewAfterFill_keeps_grid ==
    /\ pc = "return"
    /\ stack = <<>>
    /\ IF ret
       THEN /\ pc' = "capture"
            /\ UNCHANGED <<cells, attempt>>
       ELSE IF attempt = 1
            THEN /\ attempt' = 2
                 /\ pc' = "call"
                 /\ UNCHANGED cells
            ELSE /\ pc' = "panic"
                 /\ UNCHANGED <<cells, attempt>>
    /\ UNCHANGED <<stack, ret, rng, solution, removed_count, cursor, state, mode,
                   mistakes, event, target, order, detours, only_correct>>

\* The top-level fill_randomly call returned (lines 156-167): on failure a
\* second attempt on a fresh grid, and a panic when that fails too.
NewAfterFill ==
    /\ pc = "return"
    /\ stack = <<>>
    /\ IF ret
       THEN /\ pc' = "capture"
            /\ UNCHANGED <<cells, attempt>>
       ELSE IF attempt = 1
            THEN /\ cells' = GridNew
                 /\ attempt' = 2
                 /\ pc' = "call"
            ELSE /\ pc' = "panic"
                 /\ UNCHANGED <<cells, attempt>>
    /\ UNCHANGED <<stack, ret, rng, solution, removed_count, cursor, state, mode,
                   mistakes, event, target, order, detours, only_correct>>

\* 2. Capture Solution and 3. Mark all filled cells as fixed (lines 169-185).
\* The expect() of line 174 panics on an empty cell.
Capture ==
    /\ pc = "capture"
    /\ IF is_full(cells)
       THEN /\ solution' = [r \in Idx |-> [c \in Idx |-> cells[r][c].value]]
            /\ cells' = [r \in Idx |-> [c \in Idx |->
                           [cells[r][c] EXCEPT !.is_fixed = TRUE]]]
            /\ pc' = "carve"
       ELSE /\ pc' = "panic"
            /\ UNCHANGED <<cells, solution>>
    /\ UNCHANGED <<stack, ret, attempt, rng, removed_count, cursor, state, mode,
                   mistakes, event, target, order, detours, only_correct>>

\* The carving step without "is_fixed = false".
CarvePick_keeps_fixed ==
    /\ pc = "carve"
    /\ removed_count < target_removed
    /\ LET dr == random_range(rng, N)
           dc == random_range(dr.rng, N)
           r  == dr.value
           c  == dc.value
       IN  /\ rng' = dc.rng
           /\ IF cells[r][c].value # None
              THEN /\ cells' = [cells EXCEPT ![r][c].value = None]
                   /\ removed_count' = removed_count + 1
              ELSE UNCHANGED <<cells, removed_count>>
    /\ UNCHANGED <<pc, stack, ret, attempt, solution, cursor, state, mode,
                   mistakes, event, target, order, detours, only_correct>>

\* One iteration of "while removed_count < target_removed" (lines 192-201).
CarvePick ==
    /\ pc = "carve"
    /\ removed_count < target_removed
    /\ LET dr == random_range(rng, N)
           dc == random_range(dr.rng, N)
           r  == dr.value
           c  == dc.value
       IN  /\ rng' = dc.rng
           /\ IF cells[r][c].value # None
              THEN /\ cells' = [cells EXCEPT ![r][c].value = None,
                                             ![r][c].is_fixed = FALSE]
                   /\ removed_count' = removed_count + 1
              ELSE UNCHANGED <<cells, removed_count>>
    /\ UNCHANGED <<pc, stack, ret, attempt, solution, cursor, state, mode,
                   mistakes, event, target, order, detours, only_correct>>

(***************************************************************************)
(* The player.  The game is played towards a target: a full grid the       *)
(* player means to enter, the solution or a grid that differs from it in   *)
(* the four corners of a rectangle of carved cells and is valid too        *)
(* (carving does not make the solution unique).  The player visits the     *)
(* cells in a chosen order.  The planned input is the one that brings the  *)
(* board closer to the target; any other input is a detour, and a session  *)
(* holds at most MaxDetours of them.                                       *)
(***************************************************************************)
Orders == {"rows", "columns"}

Rank(o, p) == IF o = "rows" THEN p ELSE PosCol(p) * N + PosRow(p)

\* The solution with the values at the corners of a rectangle exchanged
\* along its rows.
SwapRect(sol, r1, r2, c1, c2) ==
    [sol EXCEPT ![r1][c1] = sol[r1][c2], ![r1][c2] = sol[r1][c1],
                ![r2][c1] = sol[r2][c2], ![r2][c2] = sol[r2][c1]]

AsCells(grid) == [r \in Idx |-> [c \in Idx |-> [DefaultCell EXCEPT !.value = grid[r][c]]]]

Targets(cells_, sol) ==
    {sol} \cup
    {SwapRect(sol, r1, r2, c1, c2) : <<r1, r2, c1, c2>> \in
        {q \in Idx \X Idx \X Idx \X Idx :
            /\ q[1] < q[2] /\ q[3] < q[4]
            /\ \A r \in {q[1], q[2]} : \A c \in {q[3], q[4]} : ~cells_[r][c].is_fixed
            /\ is_solved(AsCells(SwapRect(sol, q[1], q[2], q[3], q[4])))}}

\* The cells that do not hold what the player wants them to hold.
Unfinished ==
    {p \in 0..(N * N - 1) :
        /\ ~cells[PosRow(p)][PosCol(p)].is_fixed
        /\ cells[PosRow(p)][PosCol(p)].value # target[PosRow(p)][PosCol(p)]}

NextCell == CHOOSE p \in Unfinished : \A q \in Unfinished : Rank(order, p) <= Rank(order, q)

(***************************************************************************)
(* Game::new, the end: the loop is left and Self is built (lines 203-210). *)
(* The player then settles on a target and an order.                       *)
(***************************************************************************)
NewReturn ==
    /\ pc = "carve"
    /\ ~(removed_count < target_removed)
    /\ cursor' = <<0, 0>>
    /\ state' = "Playing"
    /\ mode' = "Normal"
    /\ mistakes' = U32Zero
    /\ pc' = "run"
    /\ target' \in Targets(cells, solution)
    /\ order' \in Orders
    /\ UNCHANGED <<cells, stack, ret, attempt, rng, solution, removed_count, event, detours,
                   only_correct>>

(***************************************************************************)
(* Game's methods.  Each sets the fields of Game and pc; the caller says   *)
(* what happens to the rest.                                               *)
(***************************************************************************)
\* i8 arithmetic: an overflowing "+" panics in a build with overflow checks
\* and wraps in one without.
I8Overflows(v) == v > 127 \/ v < -128
I8Wrap(v) == ((v + 128) % 256) - 128
\* clamp with the upper limit only.
Clamp_upper_only(v, lo, hi) == IF v > hi THEN hi ELSE v
Clamp(v, lo, hi) == IF v < lo THEN lo ELSE IF v > hi THEN hi ELSE v

\* Game::move_cursor (cursor = <<cursor.0, cursor.1>>).
move_cursor(dr, dc) ==
    LET new_r == cursor[1] + dr
        new_c == cursor[2] + dc
    IN  /\ \E overflow_checks \in BOOLEAN :
              IF overflow_checks /\ (I8Overflows(new_r) \/ I8Overflows(new_c))
              THEN /\ pc' = "panic"
                   /\ UNCHANGED cursor
              ELSE /\ cursor' = <<Clamp(I8Wrap(new_r), 0, 5), Clamp(I8Wrap(new_c), 0, 5)>>
                   /\ UNCHANGED pc
        /\ UNCHANGED <<cells, solution, state, mode, mistakes>>

\* Game::is_correct_move.
is_correct_move(row, col, value) == solution[row][col] = value

NoMarks == [d \in Digits |-> FALSE]

\* handle_input that sets Won only on a correct entry.
handle_input_wins_if_correct(num) ==
    LET r == cursor[1]
        c == cursor[2]
    IN  IF ~(num \in 1..6)
        THEN UNCHANGED <<cells, solution, cursor, state, mode, mistakes, pc>>
        ELSE IF cells[r][c].is_fixed
        THEN UNCHANGED <<cells, solution, cursor, state, mode, mistakes, pc>>
        ELSE IF mode = "Normal"
        THEN /\ mistakes' = IF ~is_correct_move(r, c, num)
                            THEN saturating_add_1(mistakes) ELSE mistakes
             /\ cells' = [cells EXCEPT ![r][c].value = num, ![r][c].marks = NoMarks]
             /\ state' = IF is_solved(cells') /\ is_correct_move(r, c, num)
                         THEN "Won" ELSE state
             /\ UNCHANGED <<solution, cursor, mode, pc>>
        ELSE /\ cells' = [cells EXCEPT ![r][c].marks[num] = ~cells[r][c].marks[num]]
             /\ UNCHANGED <<solution, cursor, state, mode, mistakes, pc>>

\* handle_input that tests is_solved before it stores the value.
handle_input_checks_before_set(num) ==
    LET r == cursor[1]
        c == cursor[2]
    IN  IF ~(num \in 1..6)
        THEN UNCHANGED <<cells, solution, cursor, state, mode, mistakes, pc>>
        ELSE IF cells[r][c].is_fixed
        THEN UNCHANGED <<cells, solution, cursor, state, mode, mistakes, pc>>
        ELSE IF mode = "Normal"
        THEN /\ mistakes' = IF ~is_correct_move(r, c, num)
                            THEN saturating_add_1(mistakes) ELSE mistakes
             /\ cells' = [cells EXCEPT ![r][c].value = num, ![r][c].marks = NoMarks]
             /\ state' = IF is_solved(cells) THEN "Won" ELSE state
             /\ UNCHANGED <<solution, cursor, mode, pc>>
        ELSE /\ cells' = [cells EXCEPT ![r][c].marks[num] = ~cells[r][c].marks[num]]
             /\ UNCHANGED <<solution, cursor, state, mode, mistakes, pc>>

\* handle_input that does not clear the marks when it sets the value.
handle_input_keeps_marks(num) ==
    LET r == cursor[1]
        c == cursor[2]
    IN  IF ~(num \in 1..6)
        THEN UNCHANGED <<cells, solution, cursor, state, mode, mistakes, pc>>
        ELSE IF cells[r][c].is_fixed
        THEN UNCHANGED <<cells, solution, cursor, state, mode, mistakes, pc>>
        ELSE IF mode = "Normal"
        THEN /\ mistakes' = IF ~is_correct_move(r, c, num)
                            THEN saturating_add_1(mistakes) ELSE mistakes
             /\ cells' = [cells EXCEPT ![r][c].value = num]
             /\ state' = IF is_solved(cells') THEN "Won" ELSE state
             /\ UNCHANGED <<solution, cursor, mode, pc>>
        ELSE /\ cells' = [cells EXCEPT ![r][c].marks[num] = ~cells[r][c].marks[num]]
             /\ UNCHANGED <<solution, cursor, state, mode, mistakes, pc>>

\* handle_input whose Pencil arm sets the mark instead of flipping it.
handle_input_pencil_sets(num) ==
    LET r == cursor[1]
        c == cursor[2]
    IN  IF ~(num \in 1..6)
        THEN UNCHANGED <<cells, solution, cursor, state, mode, mistakes, pc>>
        ELSE IF cells[r][c].is_fixed
        THEN UNCHANGED <<cells, solution, cursor, state, mode, mistakes, pc>>
        ELSE IF mode = "Normal"
        THEN /\ mistakes' = IF ~is_correct_move(r, c, num)
                            THEN saturating_add_1(mistakes) ELSE mistakes
             /\ cells' = [cells EXCEPT ![r][c].value = num, ![r][c].marks = NoMarks]
             /\ state' = IF is_solved(cells') THEN "Won" ELSE state
             /\ UNCHANGED <<solution, cursor, mode, pc>>
        ELSE /\ cells' = [cells EXCEPT ![r][c].marks[num] = TRUE]
             /\ UNCHANGED <<solution, cursor, state, mode, mistakes, pc>>

\* handle_input without its is_fixed test.
handle_input_ignores_fixed(num) ==
    LET r == cursor[1]
        c == cursor[2]
    IN  IF ~(num \in 1..6)
        THEN UNCHANGED <<cells, solution, cursor, state, mode, mistakes, pc>>
        ELSE IF mode = "Normal"
        THEN /\ mistakes' = IF ~is_correct_move(r, c, num)
                            THEN saturating_add_1(mistakes) ELSE mistakes
             /\ cells' = [cells EXCEPT ![r][c].value = num, ![r][c].marks = NoMarks]
             /\ state' = IF is_solved(cells') THEN "Won" ELSE state
             /\ UNCHANGED <<solution, cursor, mode, pc>>
        ELSE /\ cells' = [cells EXCEPT ![r][c].marks[num] = ~cells[r][c].marks[num]]
             /\ UNCHANGED <<solution, cursor, state, mode, mistakes, pc>>

\* handle_input that takes the entered digit for the solution's.
handle_input_rewrites_solution(num) ==
    LET r == cursor[1]
        c == cursor[2]
    IN  IF ~(num \in 1..6)
        THEN UNCHANGED <<cells, solution, cursor, state, mode, mistakes, pc>>
        ELSE IF cells[r][c].is_fixed
        THEN UNCHANGED <<cells, solution, cursor, state, mode, mistakes, pc>>
        ELSE IF mode = "Normal"
        THEN /\ mistakes' = IF ~is_correct_move(r, c, num)
                            THEN saturating_add_1(mistakes) ELSE mistakes
             /\ cells' = [cells EXCEPT ![r][c].value = num, ![r][c].marks = NoMarks]
             /\ solution' = [solution EXCEPT ![r][c] = num]
             /\ state' = IF is_solved(cells') THEN "Won" ELSE state
             /\ UNCHANGED <<cursor, mode, pc>>
        ELSE /\ cells' = [cells EXCEPT ![r][c].marks[num] = ~cells[r][c].marks[num]]
             /\ UNCHANGED <<solution, cursor, state, mode, mistakes, pc>>

\* Game::handle_input.
handle_input(num) ==
    LET r == cursor[1]
        c == cursor[2]
    IN  IF ~(num \in 1..6)
        THEN UNCHANGED <<cells, solution, cursor, state, mode, mistakes, pc>>
        ELSE IF cells[r][c].is_fixed
        THEN UNCHANGED <<cells, solution, cursor, state, mode, mistakes, pc>>
        ELSE IF mode = "Normal"
        THEN /\ mistakes' = IF ~is_correct_move(r, c, num)
                            THEN saturating_add_1(mistakes) ELSE mistakes
             /\ cells' = [cells EXCEPT ![r][c].value = num, ![r][c].marks = NoMarks]
             /\ state' = IF is_solved(cells') THEN "Won" ELSE state
             /\ UNCHANGED <<solution, cursor, mode, pc>>
        ELSE /\ cells' = [cells EXCEPT ![r][c].marks[num] = ~cells[r][c].marks[num]]
             /\ UNCHANGED <<solution, cursor, state, mode, mistakes, pc>>

\* toggle_mode that stays in Pencil.
toggle_mode_sticky ==
    /\ mode' = "Pencil"
    /\ UNCHANGED <<cells, solution, cursor, state, mistakes, pc>>

\* Game::toggle_mode.
toggle_mode ==
    /\ mode' = IF mode = "Normal" THEN "Pencil" ELSE "Normal"
    /\ UNCHANGED <<cells, solution, cursor, state, mistakes, pc>>

\* clear_cell without its is_fixed test.
clear_cell_unchecked ==
    LET r == cursor[1]
        c == cursor[2]
    IN  /\ cells' = [cells EXCEPT ![r][c].value = None, ![r][c].marks = NoMarks]
        /\ UNCHANGED <<solution, cursor, state, mode, mistakes, pc>>

\* clear_cell that clears the marks only.
clear_cell_keeps_value ==
    LET r == cursor[1]
        c == cursor[2]
    IN  IF cells[r][c].is_fixed
        THEN UNCHANGED <<cells, solution, cursor, state, mode, mistakes, pc>>
        ELSE /\ cells' = [cells EXCEPT ![r][c].marks = NoMarks]
             /\ UNCHANGED <<solution, cursor, state, mode, mistakes, pc>>

\* Game::clear_cell.
clear_cell ==
    LET r == cursor[1]
        c == cursor[2]
    IN  IF cells[r][c].is_fixed
        THEN UNCHANGED <<cells, solution, cursor, state, mode, mistakes, pc>>
        ELSE /\ cells' = [cells EXCEPT ![r][c].value = None, ![r][c].marks = NoMarks]
             /\ UNCHANGED <<solution, cursor, state, mode, mistakes, pc>>

(***************************************************************************)
(* run_app: one key press handled by the match of lines 55-88.             *)
(***************************************************************************)
DigitKeys == <<"1", "2", "3", "4", "5", "6">>
KeyCodes == {"q", "Esc", "i", "I", "p", "Left", "Right", "Up", "Down",
             "Backspace", "Delete", "Other"} \cup {DigitKeys[n] : n \in Digits}
KeyDigit(k) == CHOOSE n \in Digits : DigitKeys[n] = k

Ignored == UNCHANGED <<cells, solution, cursor, state, mode, mistakes, pc>>

\* The match whose Backspace and Delete arm does not test state.
Dispatch_clears_anywhere(k) ==
    CASE k \in {"q", "Esc"} ->
            IF state = "About"
            THEN /\ state' = "Playing"
                 /\ UNCHANGED <<cells, solution, cursor, mode, mistakes, pc>>
            ELSE /\ pc' = "quit"
                 /\ UNCHANGED <<cells, solution, cursor, state, mode, mistakes>>
      [] k \in {"i", "I"} ->
            /\ state' = IF state = "About" THEN "Playing" ELSE "About"
            /\ UNCHANGED <<cells, solution, cursor, mode, mistakes, pc>>
      [] k = "p" -> IF state = "Playing" THEN toggle_mode ELSE Ignored
      [] k = "Left" -> IF state = "Playing" THEN move_cursor(0, -1) ELSE Ignored
      [] k = "Right" -> IF state = "Playing" THEN move_cursor(0, 1) ELSE Ignored
      [] k = "Up" -> IF state = "Playing" THEN move_cursor(-1, 0) ELSE Ignored
      [] k = "Down" -> IF state = "Playing" THEN move_cursor(1, 0) ELSE Ignored
      [] k \in {DigitKeys[n] : n \in Digits} ->
            IF state = "Playing" THEN handle_input(KeyDigit(k)) ELSE Ignored
      [] k \in {"Backspace", "Delete"} ->
            clear_cell
      [] OTHER ->
            IF state = "About"
            THEN /\ state' = "Playing"
                 /\ UNCHANGED <<cells, solution, cursor, mode, mistakes, pc>>
            ELSE Ignored

\* The match whose digit arms do not test state.
Dispatch_digits_anywhere(k) ==
    CASE k \in {"q", "Esc"} ->
            IF state = "About"
            THEN /\ state' = "Playing"
                 /\ UNCHANGED <<cells, solution, cursor, mode, mistakes, pc>>
            ELSE /\ pc' = "quit"
                 /\ UNCHANGED <<cells, solution, cursor, state, mode, mistakes>>
      [] k \in {"i", "I"} ->
            /\ state' = IF state = "About" THEN "Playing" ELSE "About"
            /\ UNCHANGED <<cells, solution, cursor, mode, mistakes, pc>>
      [] k = "p" -> IF state = "Playing" THEN toggle_mode ELSE Ignored
      [] k = "Left" -> IF state = "Playing" THEN move_cursor(0, -1) ELSE Ignored
      [] k = "Right" -> IF state = "Playing" THEN move_cursor(0, 1) ELSE Ignored
      [] k = "Up" -> IF state = "Playing" THEN move_cursor(-1, 0) ELSE Ignored
      [] k = "Down" -> IF state = "Playing" THEN move_cursor(1, 0) ELSE Ignored
      [] k \in {DigitKeys[n] : n \in Digits} ->
            handle_input(KeyDigit(k))
      [] k \in {"Backspace", "Delete"} ->
            IF state = "Playing" THEN clear_cell ELSE Ignored
      [] OTHER ->
            IF state = "About"
            THEN /\ state' = "Playing"
                 /\ UNCHANGED <<cells, solution, cursor, mode, mistakes, pc>>
            ELSE Ignored

\* The match of lines 55-88.
Dispatch(k) ==
    CASE k \in {"q", "Esc"} ->
            IF state = "About"
            THEN /\ state' = "Playing"
                 /\ UNCHANGED <<cells, solution, cursor, mode, mistakes, pc>>
            ELSE /\ pc' = "quit"
                 /\ UNCHANGED <<cells, solution, cursor, state, mode, mistakes>>
      [] k \in {"i", "I"} ->
            /\ state' = IF state = "About" THEN "Playing" ELSE "About"
            /\ UNCHANGED <<cells, solution, cursor, mode, mistakes, pc>>
      [] k = "p" -> IF state = "Playing" THEN toggle_mode ELSE Ignored
      [] k = "Left" -> IF state = "Playing" THEN move_cursor(0, -1) ELSE Ignored
      [] k = "Right" -> IF state = "Playing" THEN move_cursor(0, 1) ELSE Ignored
      [] k = "Up" -> IF state = "Playing" THEN move_cursor(-1, 0) ELSE Ignored
      [] k = "Down" -> IF state = "Playing" THEN move_cursor(1, 0) ELSE Ignored
      [] k \in {DigitKeys[n] : n \in Digits} ->
            IF state = "Playing" THEN handle_input(KeyDigit(k)) ELSE Ignored
      [] k \in {"Backspace", "Delete"} ->
            IF state = "Playing" THEN clear_cell ELSE Ignored
      [] OTHER ->
            IF state = "About"
            THEN /\ state' = "Playing"
                 /\ UNCHANGED <<cells, solution, cursor, mode, mistakes, pc>>
            ELSE Ignored

\* The key the player's plan asks for: leave the overlay, leave Pencil mode,
\* walk to the next unfinished cell (rows first) and enter its target digit.
PlanKey ==
    CASE state = "About" -> "i"
      [] state = "Won" -> "none"
      [] mode = "Pencil" -> "p"
      [] Unfinished = {} -> "none"
      [] OTHER ->
            LET r == PosRow(NextCell)
                c == PosCol(NextCell)
            IN  IF cursor[1] < r THEN "Down"
                ELSE IF cursor[1] > r THEN "Up"
                ELSE IF cursor[2] < c THEN "Right"
                ELSE IF cursor[2] > c THEN "Left"
                ELSE DigitKeys[target[r][c]]

\* An entry of the solution's digit, in Normal mode, into an empty cell
\* that is not fixed.
CorrectEntry(num) ==
    /\ state = "Playing"
    /\ mode = "Normal"
    /\ ~cells[cursor[1]][cursor[2]].is_fixed
    /\ cells[cursor[1]][cursor[2]].value = None
    /\ num = solution[cursor[1]][cursor[2]]

\* A key press that moves the cursor or makes such an entry.
CorrectEntryOrMove(k) ==
    \/ k \in {"Left", "Right", "Up", "Down"}
    \/ /\ k \in {DigitKeys[n] : n \in Digits}
       /\ CorrectEntry(KeyDigit(k))

\* One iteration of run_app's loop that reads a key press (line 53).
KeyPress(k) ==
    /\ event' = [op |-> "key", code |-> k]
    /\ only_correct' = (only_correct /\ CorrectEntryOrMove(k))
    /\ Dispatch(k)
    /\ UNCHANGED <<stack, ret, attempt, rng, removed_count, target, order>>

\* The player presses the planned key, or any other while detours are left.
RunApp ==
    /\ pc = "run"
    /\ \E plan \in {PlanKey} : \E k \in KeyCodes :
          /\ k = plan \/ detours < MaxDetours
          /\ detours' = IF k = plan THEN detours ELSE detours + 1
          /\ KeyPress(k)

(***************************************************************************)
(* The program: main() builds the Game and runs run_app on it.             *)
(***************************************************************************)
InitWith(seeds) ==
    /\ pc = "call"
    /\ cells = GridNew
    /\ stack = <<>>
    /\ ret = FALSE
    /\ attempt = 1
    /\ rng \in seeds
    /\ solution = ZeroSolution
    /\ removed_count = 0
    /\ cursor = <<0, 0>>
    /\ state = "Playing"
    /\ mode = "Normal"
    /\ mistakes = U32Zero
    /\ event = [op |-> "none"]
    /\ target = ZeroSolution
    /\ order = "rows"
    /\ detours = 0
    /\ only_correct = TRUE

Init == InitWith(1..MaxSeed)

\* Game::new, from its first call of fill_randomly to its return.
New ==
    \/ FillCall
    \/ FillTry
    \/ FillExhausted
    \/ FillReturn
    \/ NewAfterFill
    \/ Capture
    \/ CarvePick
    \/ NewReturn

Next ==
    \/ New
    \/ RunApp

Spec == Init /\ [][Next]_vars

(***************************************************************************)
(* Game::new alone, on more seeds.                                         *)
(***************************************************************************)
InitNew == InitWith(1..MaxNewSeed)

SpecNew == InitNew /\ [][New]_vars

(***************************************************************************)
(* Grid::fill_randomly alone, called on an empty grid: the call and the    *)
(* calls it makes run until the first call returns.  Every step that can   *)
(* be taken is taken in the end.                                           *)
(***************************************************************************)
Fill ==
    \/ FillCall
    \/ FillTry
    \/ FillExhausted
    \/ FillReturn

SpecFill == InitNew /\ [][Fill]_vars /\ WF_vars(Fill)

(***************************************************************************)
(* Game's methods called directly, as its public interface allows: in any  *)
(* state, with any argument (num: u8 outside 1..6 too).  The player is the *)
(* same: the planned call, or a detour.                                    *)
(***************************************************************************)
ApiCalls ==
    {[op |-> "move_cursor", dr |-> dr, dc |-> dc] : dr \in {-1, 0, 1}, dc \in {-1, 0, 1}}
    \cup {[op |-> "handle_input", num |-> num] : num \in {0, 1, 2, 3, 4, 5, 6, 7, 255}}
    \cup {[op |-> "clear_cell"], [op |-> "toggle_mode"]}

CallOf(k) ==
    CASE k = "p" -> [op |-> "toggle_mode"]
      [] k = "Left" -> [op |-> "move_cursor", dr |-> 0, dc |-> -1]
      [] k = "Right" -> [op |-> "move_cursor", dr |-> 0, dc |-> 1]
      [] k = "Up" -> [op |-> "move_cursor", dr |-> -1, dc |-> 0]
      [] k = "Down" -> [op |-> "move_cursor", dr |-> 1, dc |-> 0]
      [] k \in {DigitKeys[n] : n \in Digits} -> [op |-> "handle_input", num |-> KeyDigit(k)]
      [] OTHER -> [op |-> "none"]

Call(call) ==
    /\ event' = call
    /\ only_correct' = (only_correct /\ (\/ call.op = "move_cursor"
                                         \/ call.op = "handle_input" /\ CorrectEntry(call.num)))
    /\ CASE call.op = "move_cursor" -> move_cursor(call.dr, call.dc)
         [] call.op = "handle_input" -> handle_input(call.num)
         [] call.op = "clear_cell" -> clear_cell
         [] call.op = "toggle_mode" -> toggle_mode
    /\ UNCHANGED <<stack, ret, attempt, rng, removed_count, target, order>>

RunApi ==
    /\ pc = "run"
    /\ \E plan \in {CallOf(PlanKey)} : \E call \in ApiCalls :
          /\ call = plan \/ detours < MaxDetours
          /\ detours' = IF call = plan THEN detours ELSE detours + 1
          /\ Call(call)

NextApi ==
    \/ New
    \/ RunApi

SpecApi == Init /\ [][NextApi]_vars

(***************************************************************************)
(* move_cursor over the range of its i8 arguments.                         *)
(***************************************************************************)
I8Samples == {-128, -127, -6, -1, 0, 1, 6, 122, 123, 127}

RunMove ==
    /\ pc = "run"
    /\ \E dr \in I8Samples, dc \in I8Samples :
          /\ event' = [op |-> "move_cursor", dr |-> dr, dc |-> dc]
          /\ move_cursor(dr, dc)
    /\ UNCHANGED <<stack, ret, attempt, rng, removed_count, target, order, detours,
                   only_correct>>

NextMove ==
    \/ New
    \/ RunMove

SpecMove == Init /\ [][NextMove]_vars

(***************************************************************************)
(* Grids built cell by cell (cells and value are public fields), for       *)
(* is_solved on grids the generator does not produce: the grids within     *)
(* MaxEdits cells of the empty grid or of a full valid one, the cells      *)
(* taken from the first EditRows rows.                                     *)
(***************************************************************************)
\* A full valid grid: each row shifts the one above.
Pattern == [r \in Idx |-> [c \in Idx |-> ((c + 3 * (r % 2) + (r \div 2)) % N) + 1]]

Distance(cells_, grid) ==
    Cardinality({q \in Idx \X Idx : cells_[q[1]][q[2]].value # grid[q[1]][q[2]]})

SetCell ==
    /\ pc = "grid"
    /\ \E r \in 0..(EditRows - 1), c \in Idx, v \in 0..N :
          /\ cells' = [cells EXCEPT ![r][c].value = v]
          /\ \/ Distance(cells', ZeroSolution) <= MaxEdits
             \/ Distance(cells', Pattern) <= MaxEdits
    /\ UNCHANGED <<pc, stack, ret, attempt, rng, solution, removed_count, cursor, state,
                   mode, mistakes, event, target, order, detours, only_correct>>

InitSolved ==
    /\ pc = "grid"
    /\ cells \in {GridNew, AsCells(Pattern)}
    /\ stack = <<>>
    /\ ret = FALSE
    /\ attempt = 1
    /\ rng = 1
    /\ solution = ZeroSolution
    /\ removed_count = 0
    /\ cursor = <<0, 0>>
    /\ state = "Playing"
    /\ mode = "Normal"
    /\ mistakes = U32Zero
    /\ event = [op |-> "none"]
    /\ target = ZeroSolution
    /\ order = "rows"
    /\ detours = 0
    /\ only_correct = TRUE

SpecSolved == InitSolved /\ [][SetCell]_vars

(***************************************************************************)
(* Every sequence of at most MaxCalls direct calls of Game's methods on a  *)
(* new Game (detours counts the calls).                                    *)
(***************************************************************************)
RunCalls ==
    /\ pc = "run"
    /\ detours < MaxCalls
    /\ detours' = detours + 1
    /\ \E call \in ApiCalls : Call(call)

NextCalls ==
    \/ New
    \/ RunCalls

SpecCalls == Init /\ [][NextCalls]_vars

(***************************************************************************)
(* Long sessions.  A wrong Normal-mode entry made again, with the same     *)
(* digit on the same cell, finds the cell as the call before left it and   *)
(* adds one to mistakes.  RepeatEntry is that call made over and over,     *)
(* until mistakes first has one of the values of Checkpoints: the step a   *)
(* player takes millions of times, taken at once.                          *)
(***************************************************************************)
\* The value before the carry into the high half, and u32::MAX.
Checkpoints == {<<0, 65535>>, U32Max}

Less(m1, m2) == m1[1] < m2[1] \/ (m1[1] = m2[1] /\ m1[2] < m2[2])

RepeatEntry ==
    /\ pc = "run"
    /\ mode = "Normal"
    /\ event.op = "handle_input"
    /\ event.num \in 1..6
    /\ ~cells[cursor[1]][cursor[2]].is_fixed
    /\ cells[cursor[1]][cursor[2]].value = event.num
    /\ cells[cursor[1]][cursor[2]].marks = NoMarks
    /\ ~is_correct_move(cursor[1], cursor[2], event.num)
    /\ ~is_solved(cells)
    /\ \E m \in Checkpoints :
          /\ Less(mistakes, m)
          /\ mistakes' = m
    /\ event' = [op |-> "repeat", num |-> event.num]
    /\ only_correct' = FALSE
    /\ UNCHANGED <<pc, cells, stack, ret, attempt, rng, solution, removed_count, cursor,
                   state, mode, target, order, detours>>

NextLong ==
    \/ New
    \/ RunCalls
    \/ RepeatEntry

SpecLong == Init /\ [][NextLong]_vars

(***************************************************************************)
(* Game::new with fill_randomly as a black box: a call returns either      *)
(* bool and leaves the grid untouched, full, or filled in part.            *)
(***************************************************************************)
\* A full valid grid with the digits of Pattern renamed, and a grid whose
\* first row only is filled.
Renamed == [r \in Idx |-> [c \in Idx |-> (N + 1) - Pattern[r][c]]]
FirstRow == [r \in Idx |-> [c \in Idx |-> IF r = 0 THEN Pattern[r][c] ELSE None]]

OutcomeGrids == {cells, AsCells(Pattern), AsCells(Renamed), AsCells(FirstRow)}

FillOutcome ==
    /\ pc = "call"
    /\ stack = <<>>
    /\ \E success \in BOOLEAN, grid \in OutcomeGrids :
          /\ ret' = success
          /\ cells' = grid
    /\ pc' = "return"
    /\ UNCHANGED <<stack, attempt, rng, solution, removed_count, cursor, state, mode,
                   mistakes, event, target, order, detours, only_correct>>

NextOutcome ==
    \/ FillOutcome
    \/ NewAfterFill
    \/ Capture
    \/ CarvePick
    \/ NewReturn

SpecOutcome == Init /\ [][NextOutcome]_vars

(***************************************************************************)
(* Grid::fill_randomly called on grids filled in part (cells and value are *)
(* public): a full valid grid with holes, every (MinGap..MaxGap)-th cell   *)
(* emptied, and one cell of the first row set to any digit, so that some   *)
(* grids can be completed and some cannot.                                 *)
(***************************************************************************)
HoleSets ==
    {{q \in Idx \X Idx : (q[1] * N + q[2]) % gap = first} :
        gap \in MinGap..MaxGap, first \in 0..1}

PartialGrids ==
    {[r \in Idx |-> [c \in Idx |->
         IF <<r, c>> = <<0, col>> THEN value
         ELSE IF <<r, c>> \in holes THEN None
         ELSE Pattern[r][c]]] :
        holes \in HoleSets, col \in Idx, value \in Digits}

InitPartial ==
    /\ pc = "call"
    /\ cells \in {AsCells(grid) : grid \in PartialGrids}
    /\ stack = <<>>
    /\ ret = FALSE
    /\ attempt = 1
    /\ rng = 1
    /\ solution = ZeroSolution
    /\ removed_count = 0
    /\ cursor = <<0, 0>>
    /\ state = "Playing"
    /\ mode = "Normal"
    /\ mistakes = U32Zero
    /\ event = [op |-> "none"]
    /\ target = ZeroSolution
    /\ order = "rows"
    /\ detours = 0
    /\ only_correct = TRUE

SpecPartial == InitPartial /\ [][Fill]_vars

(***************************************************************************)
(* Game::new with the picks of the carving loop left open: an iteration    *)
(* picks any cell up to the MaxChoice-th filled one (in row order), filled *)
(* or empty.  event records what line 196 found.  A position that can be   *)
(* picked from some time on is picked in the end.                          *)
(***************************************************************************)
Pickable(p) ==
    Cardinality({f \in 0..(p - 1) : cells[PosRow(f)][PosCol(f)].value # None}) < MaxChoice

\* The iteration that counts a pick of an empty cell too.
CarveAt_counts_misses(p) ==
    /\ pc = "carve"
    /\ removed_count < target_removed
    /\ Pickable(p)
    /\ LET r == PosRow(p)
           c == PosCol(p)
       IN  /\ event' = [op |-> "pick", hit |-> cells[r][c].value # None]
           /\ cells' = [cells EXCEPT ![r][c].value = None, ![r][c].is_fixed = FALSE]
           /\ removed_count' = removed_count + 1
    /\ UNCHANGED <<pc, stack, ret, attempt, rng, solution, cursor, state, mode,
                   mistakes, target, order, detours, only_correct>>

\* One iteration of the loop (lines 192-201) that picks position p.
CarveAt(p) ==
    /\ pc = "carve"
    /\ removed_count < target_removed
    /\ Pickable(p)
    /\ LET r == PosRow(p)
           c == PosCol(p)
       IN  /\ event' = [op |-> "pick", hit |-> cells[r][c].value # None]
           /\ IF cells[r][c].value # None
              THEN /\ cells' = [cells EXCEPT ![r][c].value = None,
                                             ![r][c].is_fixed = FALSE]
                   /\ removed_count' = removed_count + 1
              ELSE UNCHANGED <<cells, removed_count>>
    /\ UNCHANGED <<pc, stack, ret, attempt, rng, solution, cursor, state, mode,
                   mistakes, target, order, detours, only_correct>>

CarveAny == \E p \in 0..(N * N - 1) : CarveAt(p)

NextCarve ==
    \/ FillCall
    \/ FillTry
    \/ FillExhausted
    \/ FillReturn
    \/ NewAfterFill
    \/ Capture
    \/ CarveAny
    \/ NewReturn

SpecCarve ==
    /\ Init
    /\ [][NextCarve]_vars
    /\ WF_vars(NextCarve)
    /\ \A p \in 0..(N * N - 1) : WF_vars(CarveAt(p))

(***************************************************************************)
(* Vocabulary of the properties.                                           *)
(***************************************************************************)
Positions == Idx \X Idx

\* The 18 constraint groups: six rows, six columns, six 2x3 regions
\* (region = (row / 2) * 2 + col / 3).
RowGroup(r) == {q \in Positions : q[1] = r}
ColGroup(c) == {q \in Positions : q[2] = c}
RegionGroup(g) == {q \in Positions : (q[1] \div 2) * 2 + (q[2] \div 3) = g}
Groups == {RowGroup(r) : r \in Idx} \cup {ColGroup(c) : c \in Idx}
              \cup {RegionGroup(g) : g \in Idx}

\* Every cell has a value and no two distinct cells of a group hold the same.
FullAndDistinct(cells_) ==
    /\ \A q \in Positions : cells_[q[1]][q[2]].value \in Digits
    /\ \A G \in Groups : \A a \in G : \A b \in G :
          a # b => cells_[a[1]][a[2]].value # cells_[b[1]][b[2]].value

CursorCell == cells[cursor[1]][cursor[2]]

\* This step handles a press of a digit key.
DigitKeyStep == pc = "run" /\ event'.op = "key" /\ event'.code \in {DigitKeys[n] : n \in Digits}

\* This step is a direct call of the method named.
CallStep(op) == pc = "run" /\ event'.op = op

\* This step is a Normal-mode handle_input on a cursor cell that is not fixed.
NormalEntryStep ==
    /\ DigitKeyStep
    /\ state = "Playing"
    /\ mode = "Normal"
    /\ ~CursorCell.is_fixed

EnteredDigit == KeyDigit(event'.code)

\* m2 is m1 + 1, on the two limbs of a u32.
PlusOne(m1, m2) ==
    \/ m1[2] < 65535 /\ m2 = <<m1[1], m1[2] + 1>>
    \/ m1[2] = 65535 /\ m1[1] < 65535 /\ m2 = <<m1[1] + 1, 0>>

(***************************************************************************)
(* C1.  Won is terminal: once state is Won, no step changes it.            *)
(* The code breaks it: in run_app the keys i and I open the About overlay  *)
(* from Won as well, and leaving the overlay sets state to Playing.        *)
(***************************************************************************)
C1_WonIsTerminal == [][state = "Won" => state' = "Won"]_vars

(***************************************************************************)
(* C2.  A Normal-mode entry, on a cell that is not fixed, of a digit other *)
(* than the solution's stores the digit, adds exactly 1 to mistakes and    *)
(* leaves state other than Won.                                            *)
(* As stated it fails: carving does not keep the solution unique, and the  *)
(* entry that completes another valid grid sets Won.                       *)
(***************************************************************************)
C2_WrongEntryNeverWins ==
    [][(NormalEntryStep /\ EnteredDigit # solution[cursor[1]][cursor[2]]) =>
          /\ cells'[cursor[1]][cursor[2]].value = EnteredDigit
          /\ PlusOne(mistakes, mistakes')
          /\ state' # "Won"]_vars

\* C2, amended.  Such an entry stores the digit, adds exactly 1 to mistakes,
\* and sets Won exactly when it leaves the grid full with no digit twice in
\* a row, a column or a region; otherwise state stays Playing.
C2_WrongEntry ==
    [][(NormalEntryStep /\ EnteredDigit # solution[cursor[1]][cursor[2]]) =>
          /\ cells'[cursor[1]][cursor[2]].value = EnteredDigit
          /\ PlusOne(mistakes, mistakes')
          /\ state' = (IF FullAndDistinct(cells') THEN "Won" ELSE "Playing")]_vars

\* A wrong digit was entered, the board is full and the game is not won.
C2_Witness ==
    /\ pc = "run"
    /\ event.op = "key"
    /\ event.code \in {DigitKeys[n] : n \in Digits}
    /\ ~CursorCell.is_fixed
    /\ CursorCell.value = KeyDigit(event.code)
    /\ CursorCell.value # solution[cursor[1]][cursor[2]]
    /\ mistakes # U32Zero
    /\ is_full(cells)
    /\ state = "Playing"

(***************************************************************************)
(* C3.  While the player has only moved the cursor and entered solution    *)
(* digits into empty cells, state is Won exactly when no cell is empty     *)
(* (and is Playing otherwise).                                             *)
(***************************************************************************)
C3_WonOnLastEntry ==
    (pc = "run" /\ only_correct) =>
        state = (IF is_full(cells) THEN "Won" ELSE "Playing")

\* The last empty cell was filled, after a session with detours (cursor
\* moves off the plan's path).
C3_Witness ==
    /\ pc = "run"
    /\ only_correct
    /\ detours > 0
    /\ state = "Won"
    /\ event.op = "key"
    /\ event.code \in {DigitKeys[n] : n \in Digits}

(***************************************************************************)
(* C4.  While state is About, every key press sets state to Playing.       *)
(* The code breaks it: p, the arrows, the digits, Backspace and Delete     *)
(* have arms of their own that act only when state is Playing, so in About *)
(* they fall through without reaching the arm that closes the overlay.     *)
(***************************************************************************)
C4_AnyKeyExitsAbout ==
    [][(pc = "run" /\ state = "About" /\ event'.op = "key") => state' = "Playing"]_vars

(***************************************************************************)
(* C5.  Whenever fill_randomly returns true, every cell holds a digit in   *)
(* 1..6 and no digit occurs twice in a row, a column or a region.          *)
(***************************************************************************)
C5_FilledGridValid == (pc = "return" /\ ret) => FullAndDistinct(cells)

\* The call Game::new made on the empty grid has returned true.
C5_Witness == pc = "return" /\ stack = <<>> /\ ret /\ attempt = 1

(***************************************************************************)
(* C6.  When Game::new returns, 16 cells hold a value and 20 are empty,    *)
(* and a cell is fixed exactly when it holds a value.                      *)
(***************************************************************************)
C6_CarvingLeaves16 ==
    pc = "run" =>
        /\ Cardinality({q \in Positions : cells[q[1]][q[2]].value # None}) = 16
        /\ Cardinality({q \in Positions : cells[q[1]][q[2]].value = None}) = 20
        /\ \A q \in Positions :
              cells[q[1]][q[2]].is_fixed <=> cells[q[1]][q[2]].value # None

\* Game::new has returned a puzzle.
C6_Witness ==
    /\ pc = "run"
    /\ removed_count = 20
    /\ \E q \in Positions : cells[q[1]][q[2]].is_fixed
    /\ \E q \in Positions : ~cells[q[1]][q[2]].is_fixed

(***************************************************************************)
(* C7.  After construction the fixed flags never change; a fixed cell      *)
(* holds the solution's value, keeps it, and has all six marks false.      *)
(***************************************************************************)
C7_FixedCellsKept ==
    [][pc' = "run" =>
          \A q \in Positions :
             /\ cells'[q[1]][q[2]].is_fixed =>
                   /\ cells'[q[1]][q[2]].value = solution'[q[1]][q[2]]
                   /\ cells'[q[1]][q[2]].value \in Digits
                   /\ cells'[q[1]][q[2]].marks = NoMarks
             /\ pc = "run" =>
                   /\ cells'[q[1]][q[2]].is_fixed = cells[q[1]][q[2]].is_fixed
                   /\ cells[q[1]][q[2]].is_fixed =>
                         cells'[q[1]][q[2]] = cells[q[1]][q[2]]]_vars

\* handle_input was called in Pencil mode with the cursor on a fixed cell.
C7_Witness ==
    /\ pc = "run"
    /\ event.op = "handle_input"
    /\ event.num \in Digits
    /\ mode = "Pencil"
    /\ CursorCell.is_fixed

(***************************************************************************)
(* C8.  move_cursor is total over its i8 arguments: neither sum overflows  *)
(* and the call returns.                                                   *)
(* The code breaks it: cursor.0 as i8 + dr exceeds 127 for dr > 127 -      *)
(* cursor.0, which panics where overflow is checked and wraps elsewhere.   *)
(***************************************************************************)
C8_MoveCursorTotal ==
    [][CallStep("move_cursor") =>
          /\ ~I8Overflows(cursor[1] + event'.dr)
          /\ ~I8Overflows(cursor[2] + event'.dc)
          /\ pc' = "run"]_vars

(***************************************************************************)
(* C9.  A cell that holds a value has all six marks false.                 *)
(* As stated it fails: a Pencil-mode entry toggles a mark of a cell that   *)
(* is not fixed whether or not the cell holds a value.                     *)
(***************************************************************************)
C9_ValueExcludesMarks ==
    \A q \in Positions :
        cells[q[1]][q[2]].value # None => cells[q[1]][q[2]].marks = NoMarks

\* C9, amended.  A fixed cell has all six marks false, and a Normal-mode
\* entry leaves the cell it sets with all six marks false; a cell that is
\* not fixed can hold a value and marks at once.
C9_SettingValueClearsMarks ==
    /\ [](\A q \in Positions :
            cells[q[1]][q[2]].is_fixed => cells[q[1]][q[2]].marks = NoMarks)
    /\ [][NormalEntryStep =>
            /\ cells'[cursor[1]][cursor[2]].value = EnteredDigit
            /\ cells'[cursor[1]][cursor[2]].marks = NoMarks]_vars

\* A Normal-mode entry has just set a cell while another cell holds marks.
C9_Witness ==
    /\ pc = "run"
    /\ mode = "Normal"
    /\ event.op = "key"
    /\ event.code \in {DigitKeys[n] : n \in Digits}
    /\ ~CursorCell.is_fixed
    /\ CursorCell.value = KeyDigit(event.code)
    /\ CursorCell.marks = NoMarks
    /\ \E q \in Positions : cells[q[1]][q[2]].marks # NoMarks

(***************************************************************************)
(* C10.  For every grid, is_solved is true exactly when every cell has a   *)
(* value and no two distinct cells of a row, a column or a region hold the *)
(* same value.                                                             *)
(***************************************************************************)
C10_IsSolvedIff == pc = "grid" => (is_solved(cells) <=> FullAndDistinct(cells))

\* A full grid that is not solved although no row holds a digit twice.
C10_Witness ==
    /\ pc = "grid"
    /\ is_full(cells)
    /\ ~is_solved(cells)
    /\ \A r \in Idx : Cardinality({cells[r][c].value : c \in Idx}) = N


(***************************************************************************)
(* C11.  In Pencil mode, handle_input(num) with num in 1..6 on a cursor    *)
(* cell that is not fixed flips mark num of that cell and changes nothing  *)
(* else: not the cell's value, fixed flag or other marks, no other cell,   *)
(* not mistakes, state, mode or cursor.                                    *)
(***************************************************************************)
C11_PencilFlipsOneMark ==
    [][(/\ CallStep("handle_input")
        /\ mode = "Pencil"
        /\ event'.num \in 1..6
        /\ ~CursorCell.is_fixed)
       => /\ \A q \in Positions : q # cursor => cells'[q[1]][q[2]] = cells[q[1]][q[2]]
          /\ cells'[cursor[1]][cursor[2]].value = CursorCell.value
          /\ cells'[cursor[1]][cursor[2]].is_fixed = CursorCell.is_fixed
          /\ \A d \in Digits :
                cells'[cursor[1]][cursor[2]].marks[d] =
                    IF d = event'.num THEN ~CursorCell.marks[d] ELSE CursorCell.marks[d]
          /\ UNCHANGED <<mistakes, state, mode, cursor, solution, pc>>]_vars

\* A Pencil entry has set a mark of a cell that holds a value.
C11_Witness ==
    /\ pc = "run"
    /\ event.op = "handle_input"
    /\ mode = "Pencil"
    /\ ~CursorCell.is_fixed
    /\ CursorCell.value # None
    /\ event.num \in 1..6
    /\ CursorCell.marks[event.num]

(***************************************************************************)
(* C12.  Invalid input changes nothing: handle_input(num) with num outside *)
(* 1..6, in either mode and on any cell, and handle_input or clear_cell    *)
(* on a fixed cursor cell, leave cells, cursor, mode, mistakes, state and  *)
(* solution as they were.                                                  *)
(***************************************************************************)
C12_InvalidInputIgnored ==
    [][(\/ CallStep("handle_input") /\ ~(event'.num \in 1..6)
        \/ CallStep("handle_input") /\ CursorCell.is_fixed
        \/ CallStep("clear_cell") /\ CursorCell.is_fixed)
       => UNCHANGED <<cells, cursor, mode, mistakes, state, solution, pc>>]_vars

\* handle_input with a digit in range was called, in Normal mode, on a fixed
\* cell, as the third call or a later one.
C12_Witness ==
    /\ pc = "run"
    /\ event.op = "handle_input"
    /\ event.num \in 1..6
    /\ CursorCell.is_fixed
    /\ mode = "Normal"
    /\ detours >= 3

(***************************************************************************)
(* C15.  For dr, dc in {-1, 0, 1}, move_cursor(dr, dc) sets the cursor to  *)
(* (min(5, max(0, r + dr)), min(5, max(0, c + dc))) and changes nothing    *)
(* else; the cursor is within [0,5] x [0,5] in every reachable state.      *)
(***************************************************************************)
C15_MoveCursorClamps ==
    /\ [](cursor \in Idx \X Idx)
    /\ [][(/\ CallStep("move_cursor")
           /\ event'.dr \in {-1, 0, 1}
           /\ event'.dc \in {-1, 0, 1})
          => /\ cursor'[1] = (IF cursor[1] + event'.dr < 0 THEN 0
                              ELSE IF cursor[1] + event'.dr > 5 THEN 5
                              ELSE cursor[1] + event'.dr)
             /\ cursor'[2] = (IF cursor[2] + event'.dc < 0 THEN 0
                              ELSE IF cursor[2] + event'.dc > 5 THEN 5
                              ELSE cursor[2] + event'.dc)
             /\ UNCHANGED <<cells, mode, mistakes, state, solution, pc>>]_vars

\* move_cursor(1, 1) has left the cursor in the corner (5, 5).
C15_Witness ==
    /\ pc = "run"
    /\ event = [op |-> "move_cursor", dr |-> 1, dc |-> 1]
    /\ cursor = <<5, 5>>

(***************************************************************************)
(* C17.  clear_cell on a cursor cell that is not fixed empties the cell    *)
(* and sets its six marks to false, and changes nothing else: no other     *)
(* cell, not the cell's fixed flag, cursor, mode, mistakes, state or       *)
(* solution.                                                               *)
(***************************************************************************)
C17_ClearCellFrame ==
    [][(CallStep("clear_cell") /\ ~CursorCell.is_fixed)
       => /\ \A q \in Positions : q # cursor => cells'[q[1]][q[2]] = cells[q[1]][q[2]]
          /\ cells'[cursor[1]][cursor[2]].value = None
          /\ \A d \in Digits : ~cells'[cursor[1]][cursor[2]].marks[d]
          /\ cells'[cursor[1]][cursor[2]].is_fixed = CursorCell.is_fixed
          /\ UNCHANGED <<cursor, mode, mistakes, state, solution, pc>>]_vars

\* clear_cell was called in Pencil mode on a cell that is not fixed, after a
\* wrong entry.
C17_Witness ==
    /\ pc = "run"
    /\ event.op = "clear_cell"
    /\ ~CursorCell.is_fixed
    /\ CursorCell.value = None
    /\ mode = "Pencil"
    /\ mistakes # U32Zero

(***************************************************************************)
(* C19.  toggle_mode takes Normal to Pencil and Pencil to Normal and       *)
(* changes nothing else, so two calls in a row give back the state before  *)
(* the first.                                                              *)
(***************************************************************************)
C19_ToggleModeFlips ==
    /\ [](mode \in {"Normal", "Pencil"})
    /\ [][CallStep("toggle_mode")
          => /\ mode' # mode
             /\ UNCHANGED <<cells, cursor, mistakes, state, solution, pc>>]_vars
    /\ [][(CallStep("toggle_mode") /\ event.op = "toggle_mode")
          => mode' = (IF mode = "Pencil" THEN "Normal" ELSE "Pencil")]_vars

\* toggle_mode was called twice in a row, on a new Game.
C19_Witness ==
    /\ pc = "run"
    /\ event.op = "toggle_mode"
    /\ mode = "Normal"
    /\ detours = 2
    /\ cursor = <<0, 0>>
    /\ mistakes = U32Zero
    /\ \A q \in Positions : cells[q[1]][q[2]].value # None => cells[q[1]][q[2]].is_fixed

(***************************************************************************)
(* C13.  After Game::new has returned, no key press (cursor moves,         *)
(* entries, clears, mode changes, the About overlay) changes an entry of   *)
(* solution, so is_correct_move(r, c, v) keeps its result for the same     *)
(* arguments throughout the session.                                       *)
(***************************************************************************)
C13_SolutionWriteOnce ==
    [][pc = "run"
       => /\ solution' = solution
          /\ \A r \in Idx : \A c \in Idx : \A v \in Digits :
                is_correct_move(r, c, v)' = is_correct_move(r, c, v)]_vars

\* The overlay is open over a board that holds an entry the solution does
\* not have.
C13_Witness ==
    /\ pc = "run"
    /\ state = "About"
    /\ \E q \in Positions :
          /\ ~cells[q[1]][q[2]].is_fixed
          /\ cells[q[1]][q[2]].value # None
          /\ ~is_correct_move(q[1], q[2], cells[q[1]][q[2]].value)

(***************************************************************************)
(* C14.  When mistakes has the maximum of its range, a further wrong       *)
(* Normal-mode entry leaves it at the maximum (no wrap to 0, no abort) and *)
(* is stored in the cell all the same.                                     *)
(***************************************************************************)
C14_MistakesSaturate ==
    [][(/\ CallStep("handle_input")
        /\ mode = "Normal"
        /\ event'.num \in 1..6
        /\ ~CursorCell.is_fixed
        /\ ~is_correct_move(cursor[1], cursor[2], event'.num)
        /\ mistakes = U32Max)
       => /\ mistakes' = U32Max
          /\ cells'[cursor[1]][cursor[2]].value = event'.num
          /\ pc' = "run"]_vars

\* The last call was a wrong entry and mistakes has its maximum: only
\* RepeatEntry brings mistakes there from below within the calls of a
\* session, so the entry was made at the maximum.
C14_Witness ==
    /\ pc = "run"
    /\ event.op = "handle_input"
    /\ mode = "Normal"
    /\ event.num \in 1..6
    /\ ~CursorCell.is_fixed
    /\ CursorCell.value = event.num
    /\ ~is_correct_move(cursor[1], cursor[2], event.num)
    /\ mistakes = U32Max

(***************************************************************************)
(* C18.  For every grid, position (row, col) and value in 1..6,            *)
(* is_valid_move(row, col, value) is true exactly when no cell other than  *)
(* (row, col) in the same row, the same column or the same 2x3 region      *)
(* (region (row / 2) * 2 + col / 3) holds value; the result is the same    *)
(* with cell (row, col) empty and with cell (row, col) holding value.      *)
(***************************************************************************)
Region(q) == (q[1] \div 2) * 2 + (q[2] \div 3)

Peer(q, row, col) ==
    /\ q # <<row, col>>
    /\ q[1] = row \/ q[2] = col \/ Region(q) = Region(<<row, col>>)

C18_IsValidMoveIff ==
    pc = "grid" =>
        \A row \in Idx : \A col \in Idx : \A value \in Digits :
            /\ is_valid_move(cells, row, col, value)
                   <=> (\A q \in Positions :
                           Peer(q, row, col) => cells[q[1]][q[2]].value # value)
            /\ \A w \in {None, value} : \A other \in {[cells EXCEPT ![row][col].value = w]} :
                  is_valid_move(other, row, col, value)
                      <=> is_valid_move(cells, row, col, value)

\* A cell holds a value that is valid at its place, and the same value is
\* invalid at another place because of a cell of the region alone.
C18_Witness ==
    /\ pc = "grid"
    /\ \E row \in Idx : \E col \in Idx :
          /\ cells[row][col].value # None
          /\ is_valid_move(cells, row, col, cells[row][col].value)
    /\ \E row \in Idx : \E col \in Idx : \E value \in Digits :
          /\ ~is_valid_move(cells, row, col, value)
          /\ \A q \in Positions :
                (q[1] = row \/ q[2] = col) => cells[q[1]][q[2]].value # value

(***************************************************************************)
(* C16.  fill_randomly called on an empty grid terminates, and the call    *)
(* returns true, whatever the shuffles.                                    *)
(***************************************************************************)
C16_FillTerminatesTrue ==
    /\ <>(pc = "return" /\ stack = <<>>)
    /\ [](pc = "return" /\ stack = <<>> => ret)

\* The first call has returned true and has left a full grid.
C16_Witness ==
    /\ pc = "return"
    /\ stack = <<>>
    /\ ret
    /\ is_full(cells)
    /\ removed_count = 0

(***************************************************************************)
(* C20.  With the outcome of each fill_randomly call taken as arbitrary,   *)
(* Game::new makes at most two attempts, the second on a new empty grid;   *)
(* it returns a Game only after an attempt that returned true, with a      *)
(* solution taken from a full grid; when both attempts return false it     *)
(* ends in a panic and returns no Game.                                    *)
(***************************************************************************)
C20_RetryOnceThenPanic ==
    /\ [](attempt \in {1, 2})
    /\ [](pc \in {"carve", "run"}
            => ret /\ \A r \in Idx : \A c \in Idx : solution[r][c] \in Digits)
    /\ [][(pc = "return" /\ stack = <<>> /\ ~ret /\ attempt = 1)
          => (attempt' = 2 /\ cells' = GridNew /\ pc' = "call")]_vars
    /\ [][(pc = "return" /\ stack = <<>> /\ ~ret /\ attempt = 2)
          => pc' = "panic"]_vars
    /\ [][attempt' # attempt => (pc = "return" /\ ~ret /\ attempt = 1)]_vars
    /\ [][pc = "panic" => pc' = "panic"]_vars

\* Game::new has returned a Game made by its second attempt.
C20_Witness ==
    /\ pc = "run"
    /\ attempt = 2
    /\ ret
    /\ state = "Playing"


(***************************************************************************)
(* C21.  While state is About or Won, no key press handled by run_app      *)
(* changes a cell (value, fixed flag, marks), the cursor, the mode or      *)
(* mistakes: only state changes, or the program quits.                     *)
(***************************************************************************)
C21_InputSuspended ==
    [][(pc = "run" /\ state \in {"About", "Won"} /\ event'.op = "key")
       => UNCHANGED <<cells, cursor, mode, mistakes, solution>>]_vars

\* A digit key was pressed while the overlay was open over a cell that is
\* not fixed.
C21_Witness ==
    /\ pc = "run"
    /\ state = "About"
    /\ event.op = "key"
    /\ event.code \in {DigitKeys[n] : n \in Digits}
    /\ ~CursorCell.is_fixed

(***************************************************************************)
(* C22.  In every state the dispatch loop reaches, state = Won implies     *)
(* that the grid is solved: every cell filled and no digit twice in a row, *)
(* a column or a region.                                                   *)
(***************************************************************************)
C22_WonImpliesSolved ==
    (pc \in {"run", "quit"} /\ state = "Won") => FullAndDistinct(cells)

\* Backspace was pressed on the won board, the cursor on a cell that is not
\* fixed.
C22_Witness ==
    /\ pc = "run"
    /\ state = "Won"
    /\ event.op = "key"
    /\ event.code = "Backspace"
    /\ ~CursorCell.is_fixed
    /\ CursorCell.value # None

(***************************************************************************)
(* C23.  A call of fill_randomly that returns false leaves the grid as it  *)
(* found it, and a call that returns true leaves every value the grid held *)
(* at entry where it was.                                                  *)
(***************************************************************************)
Kept(before, after) ==
    \A q \in Positions :
        before[q[1]][q[2]].value # None => after[q[1]][q[2]].value = before[q[1]][q[2]].value

C23_BacktrackingRestores ==
    /\ [][(pc = "loop" /\ pc' = "return") => (~ret' /\ cells' = Top.entry)]_vars
    /\ [][(pc = "return" /\ ret /\ Len(stack') < Len(stack)) => Kept(Top.entry, cells')]_vars
    /\ [][(pc = "call" /\ pc' = "return") => (ret' /\ cells' = cells)]_vars

\* The first call, made on a grid with holes, has returned false, and a
\* digit is valid in the first empty cell: the call placed it and undid it.
C23_Witness ==
    /\ pc = "return"
    /\ stack = <<>>
    /\ ~ret
    /\ ~is_full(cells)
    /\ rng # 1
    /\ \E p \in {Min(EmptyPositions(cells))} :
          \E d \in Digits : is_valid_move(cells, PosRow(p), PosCol(p), d)

(***************************************************************************)
(* C24.  With fair picks the carving loop ends, with removed_count = 20;   *)
(* a pick of an empty cell changes neither the grid nor removed_count;     *)
(* removed_count is never more than 20.                                    *)
(***************************************************************************)
C24_CarvingTerminates ==
    /\ (pc = "carve") ~> (pc = "run" /\ removed_count = target_removed)
    /\ [](removed_count <= target_removed)
    /\ [][(pc = "carve" /\ event'.op = "pick" /\ ~event'.hit)
          => UNCHANGED <<cells, removed_count>>]_vars

\* The loop has picked an empty cell with one cell left to remove.
C24_Witness ==
    /\ pc = "carve"
    /\ event.op = "pick"
    /\ ~event.hit
    /\ removed_count = target_removed - 1

=============================================================================
